---- MODULE Spec2Model ----
(***************************************************************************)
(* Model of logbook_maker.processor.annotate_pdf: one run of the           *)
(* annotation of a PDF, statement by statement, together with the part of  *)
(* the file system the run touches (the destination directory and file).   *)
(***************************************************************************)
EXTENDS Integers, Sequences, FiniteSets

\* ------------------------------------------------------------------ bounds
MaxPages == 3       \* input documents have 0..MaxPages pages
MaxStart == 2       \* start_number ranges over 0..MaxStart
MaxTotal == 4       \* total_pages overrides range over 0..MaxTotal, and BigTotal
BigTotal == 120     \* one override far above every computed total
BigStart == 9       \* one start_number whose page numbers reach two digits

\* Optional[int]: None is the empty tuple, an int n is the one-element tuple.
None == <<>>
Some(n) == <<n>>
Val(opt) == opt[1]

\* ------------------------------------------------- strings and templates
\* str(int) as str.format renders an int field: decimal digits, '-' if negative.
DigitChar(d) ==
    CASE d = 0 -> "0" [] d = 1 -> "1" [] d = 2 -> "2" [] d = 3 -> "3"
      [] d = 4 -> "4" [] d = 5 -> "5" [] d = 6 -> "6" [] d = 7 -> "7"
      [] d = 8 -> "8" [] d = 9 -> "9"

RECURSIVE NatToString(_)
NatToString(n) ==
    IF n < 10 THEN DigitChar(n)
    ELSE NatToString(n \div 10) \o DigitChar(n % 10)

Str(n) == IF n < 0 THEN "-" \o NatToString(0 - n) ELSE NatToString(n)

\* A template is a sequence of tokens: literal text or a named field {name}.
Lit(s)   == [kind |-> "lit", text |-> s]
Field(f) == [kind |-> "field", text |-> f]

FieldNames(template) ==
    {template[k].text : k \in {j \in DOMAIN template : template[j].kind = "field"}}

RECURSIVE Substitute(_, _)
Substitute(template, kwargs) ==
    IF template = <<>> THEN ""
    ELSE LET tok == Head(template)
         IN  (IF tok.kind = "lit" THEN tok.text ELSE kwargs[tok.text])
             \o Substitute(Tail(template), kwargs)

\* Mutant of Format: an unknown field is rendered as empty text instead of raising.
RECURSIVE SubstituteLenient(_, _)
SubstituteLenient(template, kwargs) ==
    IF template = <<>> THEN ""
    ELSE LET tok == Head(template)
         IN  (IF tok.kind = "lit" THEN tok.text
              ELSE IF tok.text \in DOMAIN kwargs THEN kwargs[tok.text] ELSE "")
             \o SubstituteLenient(Tail(template), kwargs)

FormatLenient(template, kwargs) ==
    [ok |-> TRUE, text |-> SubstituteLenient(template, kwargs)]

\* str.format(**kwargs): KeyError when a field names no keyword argument.
Format(template, kwargs) ==
    IF FieldNames(template) \subseteq DOMAIN kwargs
    THEN [ok |-> TRUE, text |-> Substitute(template, kwargs)]
    ELSE [ok |-> FALSE, text |-> ""]

DefaultWatermarkText == "Controlled Copy"
DefaultCopyLabelTemplate == <<Lit("Copy No: "), Field("copy_number")>>
DefaultPageLabelTemplate ==
    <<Lit("Page "), Field("number"), Lit(" / "), Field("total")>>

CopyNumber == "CC-001"

PageLabelTemplates ==
    { DefaultPageLabelTemplate,
      <<Lit("Sheet "), Field("number")>>,
      <<Lit("Page "), Field("number"), Lit(" of "), Field("pages")>> }

CopyLabelTemplates ==
    { DefaultCopyLabelTemplate,
      <<Lit("Controlled")>>,
      <<Lit("Copy "), Field("number")>> }

\* --------------------------------------------------------------- documents
\* A page: its original content (id), its mediabox and the overlays merged on it.
PageSizes == { [width |-> 595, height |-> 842], [width |-> 0, height |-> 842] }

SourcePage(k, size) ==
    [id |-> k, width |-> size.width, height |-> size.height, overlays |-> <<>>]

Documents ==
    UNION { { [k \in 1..n |-> SourcePage(k, sizes[k])] : sizes \in [1..n -> PageSizes] }
            : n \in 0..MaxPages }

\* The input path: missing, present but unreadable by the codec, or a document.
Inputs ==
    { [exists |-> FALSE, readable |-> FALSE, pages |-> <<>>],
      [exists |-> TRUE,  readable |-> FALSE, pages |-> <<>>] }
    \cup { [exists |-> TRUE, readable |-> TRUE, pages |-> d] : d \in Documents }

\* The destination before the run: parent directory absent, present without the
\* file, or present with an older file.
InitialFileSystems ==
    { [dir |-> FALSE, file |-> "absent"],
      [dir |-> TRUE,  file |-> "absent"],
      [dir |-> TRUE,  file |-> "old"] }

StartNumbers == (0..MaxStart) \cup {BigStart}
MaxPagesValues == {None} \cup {Some(n) : n \in 0..(MaxPages + 1)}
TotalPagesValues == {None} \cup {Some(n) : n \in (0..MaxTotal) \cup {BigTotal}}

\* ------------------------------------------------------------------- state
VARIABLES
    pc,                     \* position in annotate_pdf
    input,                  \* the file at input_path
    start_number,           \* parameters of the call
    max_pages,
    total_pages_arg,
    page_label_template,
    copy_label_template,
    total_pages,            \* the local total_pages (reassigned on line 77)
    total_page_count,
    processed_page_count,
    calculated_total,
    index,                  \* loop index of enumerate(reader.pages)
    reader_pages,
    writer_pages,
    fs0,                    \* destination directory and file before the run
    fs,                     \* destination directory and file now
    output_pages,           \* the document stored in the destination file
    error                   \* exception that ended the run, or "None"

params == <<input, start_number, max_pages, total_pages_arg,
            page_label_template, copy_label_template, fs0>>
locals == <<total_pages, total_page_count, processed_page_count,
            calculated_total, index, reader_pages, writer_pages>>
vars == <<pc, params, locals, fs, output_pages, error>>

Init ==
    /\ pc = "check_input"
    /\ input \in Inputs
    /\ start_number \in StartNumbers
    /\ max_pages \in MaxPagesValues
    /\ total_pages_arg \in TotalPagesValues
    /\ page_label_template \in PageLabelTemplates
    /\ copy_label_template \in CopyLabelTemplates
    /\ total_pages = total_pages_arg
    /\ total_page_count = 0
    /\ processed_page_count = 0
    /\ calculated_total = 0
    /\ index = 0
    /\ reader_pages = <<>>
    /\ writer_pages = <<>>
    /\ fs0 \in InitialFileSystems
    /\ fs = fs0
    /\ output_pages = <<>>
    /\ error = "None"

\* The exceptions annotate_pdf raises itself (lines 61, 70, 79-82); the others
\* come from the calls it makes: FileNotFoundError (line 58), PdfReadError from
\* the reader, KeyError from str.format, OSError from the file system.
StartNumberError == "ValueError: start_number must be at least 1"
MaxPagesError == "ValueError: max_pages must be a positive integer"
TotalPagesError ==
    "ValueError: total_pages is smaller than the number of pages that will be numbered."

Raise(kind) ==
    /\ pc' = "failed"
    /\ error' = kind

\* --------------------------------------------------------------- the steps
\* lines 57-58
CheckInputExists ==
    /\ pc = "check_input"
    /\ IF ~input.exists
       THEN Raise("FileNotFoundError")
       ELSE pc' = "check_start" /\ UNCHANGED error
    /\ UNCHANGED <<params, locals, fs, output_pages>>

\* lines 60-61
CheckStartNumber ==
    /\ pc = "check_start"
    /\ IF start_number < 1
       THEN Raise(StartNumberError)
       ELSE pc' = "read" /\ UNCHANGED error
    /\ UNCHANGED <<params, locals, fs, output_pages>>

\* Mutant of OpenReader: the destination directory is made while the input is read.
OpenReaderMakingDirectory ==
    /\ pc = "read"
    /\ IF ~input.readable
       THEN /\ Raise("PdfReadError")
            /\ UNCHANGED <<reader_pages, writer_pages, total_page_count>>
       ELSE /\ reader_pages' = input.pages
            /\ writer_pages' = <<>>
            /\ total_page_count' = Len(input.pages)
            /\ pc' = "plan_max"
            /\ UNCHANGED error
    /\ fs' = [fs EXCEPT !.dir = TRUE]
    /\ UNCHANGED <<params, total_pages, processed_page_count, calculated_total,
                   index, output_pages>>

\* lines 63-66: PdfReader parses the file, PdfWriter starts empty
OpenReader ==
    /\ pc = "read"
    /\ IF ~input.readable
       THEN /\ Raise("PdfReadError")
            /\ UNCHANGED <<reader_pages, writer_pages, total_page_count>>
       ELSE /\ reader_pages' = input.pages
            /\ writer_pages' = <<>>
            /\ total_page_count' = Len(input.pages)
            /\ pc' = "plan_max"
            /\ UNCHANGED error
    /\ UNCHANGED <<params, total_pages, processed_page_count, calculated_total,
                   index, fs, output_pages>>

\* line 71: min
Min(a, b) == IF a < b THEN a ELSE b

\* Mutant of ProcessedPageCount: max_pages taken as it is, without the min.
ProcessedPageCountNoMin(maxPages, totalPageCount) ==
    IF maxPages # None THEN Val(maxPages) ELSE totalPageCount

ProcessedPageCount(maxPages, totalPageCount) ==
    IF maxPages # None THEN Min(Val(maxPages), totalPageCount) ELSE totalPageCount

\* lines 68-73
PlanMaxPages ==
    /\ pc = "plan_max"
    /\ IF max_pages # None /\ Val(max_pages) < 1
       THEN Raise(MaxPagesError) /\ UNCHANGED processed_page_count
       ELSE /\ processed_page_count' = ProcessedPageCount(max_pages, total_page_count)
            /\ pc' = "plan_total"
            /\ UNCHANGED error
    /\ UNCHANGED <<params, total_pages, total_page_count, calculated_total,
                   index, reader_pages, writer_pages, fs, output_pages>>

\* Mutant of CalculatedTotal: the "- 1" forgotten.
CalculatedTotalNoMinusOne(startNumber, processedPageCount) ==
    startNumber + processedPageCount

\* line 75
CalculatedTotal(startNumber, processedPageCount) ==
    startNumber + processedPageCount - 1

\* Mutant of TotalTooSmall: an override one below the computed total is let through.
TotalTooSmallOffByOne(totalPages, calculatedTotal) ==
    Val(totalPages) < calculatedTotal - 1

\* line 78
TotalTooSmall(totalPages, calculatedTotal) == Val(totalPages) < calculatedTotal

\* lines 75-82
PlanTotalPages ==
    /\ pc = "plan_total"
    /\ calculated_total' = CalculatedTotal(start_number, processed_page_count)
    /\ IF total_pages = None
       THEN total_pages' = Some(calculated_total') /\ pc' = "loop" /\ UNCHANGED error
       ELSE IF TotalTooSmall(total_pages, calculated_total')
            THEN Raise(TotalPagesError) /\ UNCHANGED total_pages
            ELSE pc' = "loop" /\ UNCHANGED <<error, total_pages>>
    /\ index' = 0
    /\ UNCHANGED <<params, total_page_count, processed_page_count,
                   reader_pages, writer_pages, fs, output_pages>>

\* Mutant of CurrentNumber: the 0-based index taken as 1-based.
CurrentNumberOneBased(startNumber, idx) == startNumber + idx + 1

\* line 86
CurrentNumber(startNumber, idx) == startNumber + idx

\* lines 87-89
PageLabel(idx) ==
    Format(page_label_template,
           [number |-> Str(CurrentNumber(start_number, idx)),
            total  |-> Str(Val(total_pages))])

\* line 90
CopyLabel == Format(copy_label_template, [copy_number |-> CopyNumber])

\* lines 106-141: the overlay is a one-page document of the given size carrying
\* the three strings; the function checks nothing about width or height.
BuildOverlayPage(width, height, page_label, copy_label, watermark_text) ==
    [width |-> width, height |-> height, page_label |-> page_label,
     copy_label |-> copy_label, watermark_text |-> watermark_text]

\* line 98: merge_page draws the overlay over the page's own content, in place
MergePage(page, overlay) == [page EXCEPT !.overlays = Append(@, overlay)]

\* Mutant of IsAnnotated: the limit compared with <= instead of <.
IsAnnotatedInclusive(idx, processedPageCount) == idx <= processedPageCount

\* line 85
IsAnnotated(idx, processedPageCount) == idx < processedPageCount

\* lines 84-99, one iteration on a page below processed_page_count
AnnotatePage ==
    /\ pc = "loop"
    /\ index < total_page_count
    /\ IsAnnotated(index, processed_page_count)
    /\ PageLabel(index).ok /\ CopyLabel.ok
    /\ LET page == reader_pages[index + 1]
           overlay == BuildOverlayPage(page.width, page.height,
                                       PageLabel(index).text, CopyLabel.text,
                                       DefaultWatermarkText)
           merged == MergePage(page, overlay)
       IN  /\ reader_pages' = [reader_pages EXCEPT ![index + 1] = merged]
           /\ writer_pages' = Append(writer_pages, merged)
    /\ index' = index + 1
    /\ UNCHANGED <<pc, error, params, total_pages, total_page_count,
                   processed_page_count, calculated_total, fs, output_pages>>

\* lines 87-90: str.format raises on a field that is no keyword argument
AnnotatePageTemplateError ==
    /\ pc = "loop"
    /\ index < total_page_count
    /\ IsAnnotated(index, processed_page_count)
    /\ ~(PageLabel(index).ok /\ CopyLabel.ok)
    /\ Raise("KeyError")
    /\ UNCHANGED <<params, locals, fs, output_pages>>

\* Mutant of CopyPage: add_page done only for annotated pages, the others dropped.
CopyPageDropped ==
    /\ pc = "loop"
    /\ index < total_page_count
    /\ ~IsAnnotated(index, processed_page_count)
    /\ index' = index + 1
    /\ UNCHANGED <<pc, error, params, total_pages, total_page_count,
                   processed_page_count, calculated_total, reader_pages,
                   writer_pages, fs, output_pages>>

\* lines 84-85, 99: a page at or beyond processed_page_count is added as it is
CopyPage ==
    /\ pc = "loop"
    /\ index < total_page_count
    /\ ~IsAnnotated(index, processed_page_count)
    /\ writer_pages' = Append(writer_pages, reader_pages[index + 1])
    /\ index' = index + 1
    /\ UNCHANGED <<pc, error, params, total_pages, total_page_count,
                   processed_page_count, calculated_total, reader_pages,
                   fs, output_pages>>

\* line 84: the enumeration is exhausted
EndLoop ==
    /\ pc = "loop"
    /\ index = total_page_count
    /\ pc' = "mkdir"
    /\ UNCHANGED <<error, params, locals, fs, output_pages>>

\* line 101: mkdir(parents=True, exist_ok=True)
MakeParentDirectory ==
    /\ pc = "mkdir"
    /\ fs' = [fs EXCEPT !.dir = TRUE]
    /\ pc' = "open"
    /\ UNCHANGED <<error, params, locals, output_pages>>

\* line 101: the directory cannot be created
MakeParentDirectoryFails ==
    /\ pc = "mkdir"
    /\ ~fs.dir
    /\ Raise("OSError")
    /\ UNCHANGED <<params, locals, fs, output_pages>>

\* line 102: open("wb") creates the file, or truncates the one that is there
OpenOutput ==
    /\ pc = "open"
    /\ fs' = [fs EXCEPT !.file = "empty"]
    /\ output_pages' = <<>>
    /\ pc' = "write"
    /\ UNCHANGED <<error, params, locals>>

\* line 102: the destination cannot be opened for writing
OpenOutputFails ==
    /\ pc = "open"
    /\ Raise("OSError")
    /\ UNCHANGED <<params, locals, fs, output_pages>>

\* line 103: the whole document is serialised into the open file
WriteOutput ==
    /\ pc = "write"
    /\ fs' = [fs EXCEPT !.file = "complete"]
    /\ output_pages' = writer_pages
    /\ pc' = "done"
    /\ UNCHANGED <<error, params, locals>>

\* line 103: serialisation fails part-way; what was written stays in the file
WriteOutputFails ==
    /\ pc = "write"
    /\ \E left \in {"empty", "partial"} : fs' = [fs EXCEPT !.file = left]
    /\ Raise("OSError")
    /\ UNCHANGED <<params, locals, output_pages>>

Next ==
    \/ CheckInputExists
    \/ CheckStartNumber
    \/ OpenReader
    \/ PlanMaxPages
    \/ PlanTotalPages
    \/ AnnotatePage
    \/ AnnotatePageTemplateError
    \/ CopyPage
    \/ EndLoop
    \/ MakeParentDirectory
    \/ MakeParentDirectoryFails
    \/ OpenOutput
    \/ OpenOutputFails
    \/ WriteOutput
    \/ WriteOutputFails

Spec == Init /\ [][Next]_vars

\* ------------------------------------------------------- claim vocabulary
N == Len(input.pages)
Succeeded == pc = "done"
Failed == pc = "failed"
Ended == Succeeded \/ Failed

\* The page plan as the specification words it, from the call's arguments.
PlannedCount == IF max_pages = None THEN N
                ELSE IF Val(max_pages) < N THEN Val(max_pages) ELSE N
ComputedTotal == start_number + PlannedCount - 1
ResolvedTotal == IF total_pages_arg = None THEN ComputedTotal ELSE Val(total_pages_arg)

ConfigurationInvalid ==
    \/ start_number < 1
    \/ max_pages # None /\ Val(max_pages) < 1
    \/ total_pages_arg # None /\ Val(total_pages_arg) < ComputedTotal

UnknownPlaceholder ==
    \/ ~(FieldNames(page_label_template) \subseteq {"number", "total"})
    \/ ~(FieldNames(copy_label_template) \subseteq {"copy_number"})

ExpectedPageLabel(i) ==
    Substitute(page_label_template,
               [number |-> Str(start_number + i), total |-> Str(ResolvedTotal)])
ExpectedCopyLabel ==
    Substitute(copy_label_template, [copy_number |-> CopyNumber])

InvalidConfigurationError ==
    error \in {StartNumberError, MaxPagesError, TotalPagesError}
TemplateError == error = "KeyError"

Merged(pages) == {k \in DOMAIN pages : pages[k].overlays # <<>>}
DestinationUntouched == fs = fs0 /\ output_pages = <<>>
Planned == pc \in {"loop", "mkdir", "open", "write", "done"}

\* C1: a successful run writes a document with exactly the N input pages, output
\* page i being input page i: none added, removed, duplicated or reordered.
C1_PagesPreserved ==
    Succeeded =>
        /\ fs.file = "complete"
        /\ Len(output_pages) = N
        /\ \A k \in 1..N :
              /\ output_pages[k].id = input.pages[k].id
              /\ output_pages[k].width = input.pages[k].width
              /\ output_pages[k].height = input.pages[k].height

C1_Witness ==
    /\ Succeeded /\ N = 3 /\ max_pages = Some(2)
    /\ Len(output_pages) = 3 /\ output_pages[3].id = 3

\* C2: after a successful run every page below the planned count carries one
\* overlay with the watermark text, the substituted copy label and the page label
\* for number start_number + i and the resolved total; with the default arguments
\* that is "Page i+1 / N" and "Copy No: <copy_number>".
C2_AnnotatedPagesCarryLabels ==
    Succeeded =>
        \A i \in 0..(PlannedCount - 1) :
            LET page == output_pages[i + 1]
            IN  /\ Len(page.overlays) = 1
                /\ page.overlays[1].watermark_text = "Controlled Copy"
                /\ page.overlays[1].copy_label = ExpectedCopyLabel
                /\ page.overlays[1].page_label = ExpectedPageLabel(i)
                /\ ( /\ page_label_template = DefaultPageLabelTemplate
                     /\ copy_label_template = DefaultCopyLabelTemplate
                     /\ start_number = 1 /\ total_pages_arg = None
                     /\ max_pages = None )
                   => /\ page.overlays[1].page_label
                           = "Page " \o Str(i + 1) \o " / " \o Str(N)
                      /\ page.overlays[1].copy_label = "Copy No: " \o CopyNumber

C2_Witness ==
    /\ Succeeded /\ N = 3 /\ Len(output_pages) = 3
    /\ output_pages[3].overlays # <<>>
    /\ output_pages[3].overlays[1].page_label = "Page 3 / 3"
    /\ output_pages[3].overlays[1].copy_label = "Copy No: CC-001"
    /\ output_pages[3].overlays[1].watermark_text = "Controlled Copy"

\* C3: after a successful run every page at or beyond the planned count is in the
\* output at its own position with no overlay, identical to the source page.
C3_UnprocessedPagesUntouched ==
    Succeeded =>
        \A i \in PlannedCount..(N - 1) :
            /\ output_pages[i + 1] = input.pages[i + 1]
            /\ output_pages[i + 1].overlays = <<>>

C3_Witness ==
    /\ Succeeded /\ N = 3 /\ max_pages = Some(1)
    /\ output_pages[1].overlays # <<>>
    /\ output_pages[2] = input.pages[2]
    /\ output_pages[3] = input.pages[3]

\* C4 as stated: on an existing input the run fails with an invalid-configuration
\* error exactly when start_number < 1, or max_pages is given and < 1, or
\* total_pages is given and below start_number + processedPageCount - 1; then no
\* page was merged, no directory created, no output file written.
C4_InvalidConfigurationIff ==
    (Ended /\ input.exists) =>
        /\ InvalidConfigurationError <=> ConfigurationInvalid
        /\ InvalidConfigurationError
              => Merged(reader_pages) = {} /\ DestinationUntouched

\* C4 amended: the same, on an existing input that the PDF reader can parse.
C4_InvalidConfigurationIffReadable ==
    (Ended /\ input.exists /\ input.readable) =>
        /\ InvalidConfigurationError <=> ConfigurationInvalid
        /\ InvalidConfigurationError
              => Merged(reader_pages) = {} /\ DestinationUntouched
        /\ (total_pages_arg = Some(BigTotal) /\ start_number >= 1
              /\ (max_pages = None \/ Val(max_pages) >= 1))
              => ~InvalidConfigurationError

C4_Witness ==
    /\ Failed /\ error = TotalPagesError /\ input.readable
    /\ start_number = 2 /\ max_pages = Some(2) /\ N = 3
    /\ total_pages_arg = Some(2)

C4_WitnessNoUpperBound ==
    /\ Succeeded /\ total_pages_arg = Some(BigTotal) /\ N = 1

\* C5: once planned, processed_page_count is min(max_pages, N) when max_pages is
\* given and N otherwise; total_pages is the override when given and
\* start_number + processed_page_count - 1 otherwise; a max_pages above N leaves
\* every page to be annotated.
C5_PagePlan ==
    Planned =>
        /\ processed_page_count = PlannedCount
        /\ calculated_total = start_number + processed_page_count - 1
        /\ total_pages_arg = None
              => Val(total_pages) = start_number + processed_page_count - 1
        /\ total_pages_arg # None => total_pages = total_pages_arg
        /\ (max_pages # None /\ Val(max_pages) > N) => processed_page_count = N
        /\ (Succeeded /\ max_pages # None /\ Val(max_pages) > N)
              => Merged(output_pages) = 1..N

C5_Witness ==
    /\ Succeeded /\ N = 2 /\ max_pages = Some(3) /\ start_number = 2
    /\ total_pages_arg = None /\ total_pages = Some(3)
    /\ Merged(output_pages) = {1, 2}

\* C6 as stated: in no failure state does the destination path hold a new,
\* truncated or partially written file.
C6_NoWriteBeforeFailure ==
    Failed => fs.file = fs0.file

\* C7 as stated: a template naming an unrecognised placeholder makes the run fail
\* with a template error and no output, for every input document and otherwise
\* valid configuration.
C7_UnknownPlaceholderFails ==
    (Ended /\ input.readable /\ ~ConfigurationInvalid /\ UnknownPlaceholder) =>
        TemplateError /\ DestinationUntouched

\* C7 amended: the same for every input document with at least one page; and
\* with templates naming only recognised placeholders an otherwise valid run
\* fails only if the destination cannot be written, the labels being the
\* templates with the values they name filled in.
C7_UnknownPlaceholderFailsNonEmpty ==
    /\ (Ended /\ input.readable /\ ~ConfigurationInvalid /\ UnknownPlaceholder
          /\ N >= 1)
          => TemplateError /\ DestinationUntouched
    /\ ~UnknownPlaceholder =>
          /\ ~TemplateError
          /\ (Failed /\ input.readable /\ ~ConfigurationInvalid) => error = "OSError"
          /\ \A k \in Merged(reader_pages) :
                /\ reader_pages[k].overlays[1].page_label = ExpectedPageLabel(k - 1)
                /\ reader_pages[k].overlays[1].copy_label = ExpectedCopyLabel
          /\ (Succeeded /\ copy_label_template = <<Lit("Controlled")>> /\ N >= 1)
                => output_pages[1].overlays[1].copy_label = "Controlled"
          /\ (Succeeded /\ page_label_template = <<Lit("Sheet "), Field("number")>>
                /\ N >= 1 /\ start_number = 1)
                => output_pages[1].overlays[1].page_label = "Sheet 1"

C7_Witness ==
    /\ Failed /\ TemplateError /\ N = 2
    /\ "pages" \in FieldNames(page_label_template)
    /\ copy_label_template = DefaultCopyLabelTemplate

C7_WitnessOmitted ==
    /\ Succeeded /\ N = 2 /\ copy_label_template = <<Lit("Controlled")>>
    /\ page_label_template = <<Lit("Sheet "), Field("number")>>
    /\ output_pages[2].overlays[1].page_label = "Sheet 2"

\* C8 as stated: a page slated for annotation with a non-positive width or height
\* fails the run with an invalid-geometry error; it is never rendered with a
\* degenerate overlay and no output document is produced.
C8_InvalidGeometryFails ==
    /\ \A k \in Merged(reader_pages) :
          \A j \in DOMAIN reader_pages[k].overlays :
              /\ reader_pages[k].overlays[j].width > 0
              /\ reader_pages[k].overlays[j].height > 0
    /\ Succeeded =>
          \A i \in 0..(PlannedCount - 1) :
              input.pages[i + 1].width > 0 /\ input.pages[i + 1].height > 0

\* C9: validation is complete before the first page is merged; pages are decided
\* and handed to the writer one at a time in increasing index order; the
\* destination directory is created and the file opened only after the last page
\* was handed over.
C9_StepAtATime ==
    /\ writer_pages' # writer_pages =>
          /\ pc = "loop" /\ ~ConfigurationInvalid
          /\ Len(writer_pages) = index /\ index' = index + 1
          /\ writer_pages' = Append(writer_pages, reader_pages'[index + 1])
          /\ \A k \in DOMAIN reader_pages :
                k # index + 1 => reader_pages'[k] = reader_pages[k]
          /\ Merged(reader_pages') \subseteq 1..(index + 1)
          /\ fs = fs0 /\ fs' = fs0
    /\ (reader_pages' # reader_pages /\ pc # "read") =>
          writer_pages' # writer_pages
    /\ (fs' # fs \/ output_pages' # output_pages) =>
          /\ pc \in {"mkdir", "open", "write"}
          /\ index = total_page_count
          /\ Len(writer_pages) = N
          /\ writer_pages' = writer_pages

C9_StrictOrder == [][C9_StepAtATime]_vars

C9_Witness ==
    /\ Succeeded /\ N = 3 /\ fs0.dir = FALSE /\ fs.dir = TRUE
    /\ Merged(output_pages) = {1, 2}

\* C10: in a successful run every annotated page i prints n_i = start_number + i
\* with 1 <= start_number <= n_i <= resolved total, consecutive annotated pages
\* print consecutive numbers, and the last annotated page prints the resolved
\* total exactly when no override above the computed total was given.
C10_NumberingInvariant ==
    Succeeded =>
        /\ \A i \in 0..(processed_page_count - 1) :
              LET n == start_number + i
              IN  /\ 1 <= start_number /\ start_number <= n
                  /\ n <= Val(total_pages)
                  /\ output_pages[i + 1].overlays[1].page_label
                        = Substitute(page_label_template,
                                     [number |-> Str(n),
                                      total |-> Str(Val(total_pages))])
                  /\ (i + 1 < processed_page_count) =>
                        output_pages[i + 2].overlays[1].page_label
                           = Substitute(page_label_template,
                                        [number |-> Str(n + 1),
                                         total |-> Str(Val(total_pages))])
        /\ processed_page_count >= 1 =>
              ( (start_number + processed_page_count - 1 = Val(total_pages))
                <=> ~( total_pages_arg # None
                       /\ Val(total_pages_arg)
                            > start_number + processed_page_count - 1 ) )

C10_Witness ==
    /\ Succeeded /\ start_number = BigStart /\ N = 3 /\ max_pages = None
    /\ total_pages_arg = Some(BigTotal)
    /\ output_pages[2].overlays[1].page_label
          = "Page " \o Str(BigStart + 1) \o " / " \o Str(BigTotal)

C10_WitnessExact ==
    /\ Succeeded /\ start_number = 2 /\ N = 3 /\ total_pages_arg = Some(4)
    /\ max_pages = None
    /\ output_pages[3].overlays[1].page_label = "Page 4 / 4"

====
